---- MODULE Spec2Model ----
(***************************************************************************)
(* A model of eml2pdf (src/src/eml2pdf/convert.py, src/src/eml2pdf/cli.py). *)
(*                                                                         *)
(* Strings are sequences of one-character strings, so that strip, split,   *)
(* replace and length are computed as the Python code computes them.       *)
(* The module holds five specifications over one set of variables:         *)
(*   SpecWrap    _wrap_text on bounded texts and widths                    *)
(*   SpecBody    _get_body_parts, one walk step per action                 *)
(*   SpecAttach  _save_attachments, one walk step per action               *)
(*   SpecLayout  the direct-layout path of convert_eml_to_pdf              *)
(*   Spec        batch_convert driven by cli.main                          *)
(* A specification leaves the variables of the others at their idle value. *)
(***************************************************************************)
EXTENDS Integers, Sequences, FiniteSets, TLC

VARIABLES
    \* _wrap_text
    wText, wWidth, wLines, wPc,
    \* _get_body_parts
    bMsg, bPos, text_part, html_part, textFrom, htmlFrom, bPc, bResult,
    \* _save_attachments
    aMsg, aPos, aState, aPc,
    \* direct layout
    y, pages, pending, lastDraw, nParas, lastBlank, attsLeft, lPc,
    \* batch_convert and cli.main
    tree, input_path, recursive, overwrite, extract_attachments,
    fs, eligible, todo, count, phase, exc, cause, lastCall, started, converted, exitCode

wrapVars == <<wText, wWidth, wLines, wPc>>
bodyVars == <<bMsg, bPos, text_part, html_part, textFrom, htmlFrom, bPc, bResult>>
attVars == <<aMsg, aPos, aState, aPc>>
layVars == <<y, pages, pending, lastDraw, nParas, lastBlank, attsLeft, lPc>>
batchVars == <<tree, input_path, recursive, overwrite, extract_attachments,
               fs, eligible, todo, count, phase, exc, cause, lastCall, started, converted,
               exitCode>>
vars == <<wrapVars, bodyVars, attVars, layVars, batchVars>>

(***************************************************************************)
(* Bounds of the model.                                                    *)
(***************************************************************************)
MaxTextLen == 8      \* longest text handed to _wrap_text in SpecWrap
MaxWidth == 4        \* largest width handed to _wrap_text in SpecWrap
MaxBodyParts == 3    \* longest part walk in SpecBody
MaxNameLen == 2      \* longest declared filename in the full enumeration
MaxParts == 2        \* longest part walk in SpecAttach
MaxParas == 24       \* most paragraphs of a body in SpecLayout
MaxAtts == 2         \* most attachments listed in SpecLayout
MaxStems == 2        \* number of distinct input base names in Spec

(***************************************************************************)
(* Strings.                                                                *)
(***************************************************************************)
\* an absent string (Python None); no string holds the character "None"
None == <<"None">>

\* part.get_content_disposition() of a part that declares none
NoDisp == "none"

IsSpace(ch) == ch \in {" ", "\t"}

\* str.strip()
RECURSIVE LStrip(_)
LStrip(s) == IF s # <<>> /\ IsSpace(Head(s)) THEN LStrip(Tail(s)) ELSE s

RECURSIVE RStrip(_)
RStrip(s) ==
    IF s # <<>> /\ IsSpace(s[Len(s)]) THEN RStrip(SubSeq(s, 1, Len(s) - 1)) ELSE s

Strip(s) == RStrip(LStrip(s))

\* str.split(): the maximal runs of non-whitespace characters, in order
WordStarts(s) ==
    {i \in 1..Len(s) : ~IsSpace(s[i]) /\ (i = 1 \/ IsSpace(s[i - 1]))}

\* the last position of the word that starts at position i
WordEnd(s, i) ==
    CHOOSE j \in i..Len(s) :
        /\ \A k \in i..j : ~IsSpace(s[k])
        /\ (j = Len(s) \/ IsSpace(s[j + 1]))

Split(s) ==
    LET starts == WordStarts(s)
        nth(k) == CHOOSE i \in starts : Cardinality({j \in starts : j <= i}) = k
    IN [k \in 1..Cardinality(starts) |-> SubSeq(s, nth(k), WordEnd(s, nth(k)))]

\* all strings over alphabet of length 0..n
StringsUpTo(alphabet, n) == UNION {[1..k -> alphabet] : k \in 0..n}

\* " ".join(words)
RECURSIVE JoinWords(_)
JoinWords(ws) ==
    IF ws = <<>> THEN <<>>
    ELSE IF Len(ws) = 1 THEN ws[1]
    ELSE ws[1] \o <<" ">> \o JoinWords(Tail(ws))

\* a string of n copies of ch
Repeat(ch, n) == [i \in 1..n |-> ch]

(***************************************************************************)
(* _wrap_text (convert.py 187-200).                                        *)
(***************************************************************************)
\* a mutation of Fits: the separating space is not counted
FitsNoSpace(line, w, width) == Len(line) + Len(w) <= width

\* line 194: len(line) + 1 + len(w) <= width
Fits(line, w, width) == Len(line) + 1 + Len(w) <= width

\* lines 193-199: the loop over words[1:], then the trailing append
RECURSIVE WrapLoop(_, _, _, _)
WrapLoop(words, line, lines, width) ==
    IF words = <<>> THEN Append(lines, line)
    ELSE IF Fits(line, Head(words), width)
         THEN WrapLoop(Tail(words), line \o <<" ">> \o Head(words), lines, width)
         ELSE WrapLoop(Tail(words), Head(words), Append(lines, line), width)

_wrap_text(text, width) ==
    LET words == Split(text)
    IN IF words = <<>> THEN <<>>
       ELSE WrapLoop(Tail(words), words[1], <<>>, width)

WrapAlphabet == {"a", " "}

WrapIdle == wText = <<>> /\ wWidth = 0 /\ wLines = <<>> /\ wPc = "idle"

InitWrap ==
    /\ wText \in StringsUpTo(WrapAlphabet, MaxTextLen)
    /\ wWidth \in 0..MaxWidth
    /\ wLines = <<>>
    /\ wPc = "start"

Wrap ==
    /\ wPc = "start"
    /\ wLines' = _wrap_text(wText, wWidth)
    /\ wPc' = "done"
    /\ UNCHANGED <<wText, wWidth>>
    /\ UNCHANGED <<bodyVars, attVars, layVars, batchVars>>

(***************************************************************************)
(* _get_body_parts (convert.py 53-74).  A message is the sequence of its   *)
(* parts in walk (document) order, the root first; a root that is not a    *)
(* container is the whole message.                                         *)
(***************************************************************************)
Multipart == "multipart/mixed"

BodyCtypes == {"text/plain", "text/html", Multipart}
Dispositions == {NoDisp, "attachment", "inline"}
BodyContents == {<<>>, <<"x", " ">>}

BodyPart == [ctype : BodyCtypes, disp : Dispositions, content : BodyContents]

BodyRoot == [ctype |-> Multipart, disp |-> NoDisp, content |-> <<>>]

BodyMessages ==
    {<<p>> : p \in {q \in BodyPart : q.ctype # Multipart /\ q.disp = NoDisp}}
    \cup {<<BodyRoot>> \o s : s \in UNION {[1..k -> BodyPart] : k \in 0..MaxBodyParts}}

\* msg.is_multipart()
is_multipart(msg) == msg[1].ctype = Multipart

\* a mutation of Unset: an empty earlier candidate counts as not found yet
UnsetOrEmpty(candidate) == candidate = None \/ candidate = <<>>

\* lines 62, 64: "text_part is None", "html_part is None"
Unset(candidate) == candidate = None

\* lines 67-68: str(part).strip() if part else ""
BodyString(candidate) ==
    IF candidate = None \/ candidate = <<>> THEN <<>> ELSE Strip(candidate)

BodyIdle ==
    /\ bMsg = <<>> /\ bPos = 0 /\ text_part = None /\ html_part = None
    /\ textFrom = 0 /\ htmlFrom = 0 /\ bPc = "idle" /\ bResult = <<>>

InitBody ==
    /\ bMsg \in BodyMessages
    /\ bPos = 1
    /\ text_part = None
    /\ html_part = None
    /\ textFrom = 0
    /\ htmlFrom = 0
    /\ bPc = "start"
    /\ bResult = <<>>

\* line 54, taken branch: the walk begins
BodyEnter ==
    /\ bPc = "start"
    /\ is_multipart(bMsg)
    /\ bPc' = "walk"
    /\ UNCHANGED <<bMsg, bPos, text_part, html_part, textFrom, htmlFrom, bResult>>
    /\ UNCHANGED <<wrapVars, attVars, layVars, batchVars>>

\* lines 58-65: one iteration of the loop over msg.walk()
BodyWalk ==
    /\ bPc = "walk"
    /\ bPos <= Len(bMsg)
    /\ LET part == bMsg[bPos]
       IN IF part.disp = "attachment"
          THEN UNCHANGED <<text_part, html_part, textFrom, htmlFrom>>
          ELSE IF part.ctype = "text/plain" /\ Unset(text_part)
          THEN /\ text_part' = part.content
               /\ textFrom' = bPos
               /\ UNCHANGED <<html_part, htmlFrom>>
          ELSE IF part.ctype = "text/html" /\ Unset(html_part)
          THEN /\ html_part' = part.content
               /\ htmlFrom' = bPos
               /\ UNCHANGED <<text_part, textFrom>>
          ELSE UNCHANGED <<text_part, html_part, textFrom, htmlFrom>>
    /\ bPos' = bPos + 1
    /\ UNCHANGED <<bMsg, bPc, bResult>>
    /\ UNCHANGED <<wrapVars, attVars, layVars, batchVars>>

\* lines 66-69
BodyReturn ==
    /\ bPc = "walk"
    /\ bPos > Len(bMsg)
    /\ bResult' = <<BodyString(text_part), BodyString(html_part)>>
    /\ bPc' = "done"
    /\ UNCHANGED <<bMsg, bPos, text_part, html_part, textFrom, htmlFrom>>
    /\ UNCHANGED <<wrapVars, attVars, layVars, batchVars>>

\* lines 71-74: a message that is not a container
BodySingle ==
    /\ bPc = "start"
    /\ ~is_multipart(bMsg)
    /\ bResult' = IF bMsg[1].ctype = "text/html"
                  THEN <<<<>>, Strip(bMsg[1].content)>>
                  ELSE <<Strip(bMsg[1].content), <<>>>>
    /\ bPc' = "done"
    /\ UNCHANGED <<bMsg, bPos, text_part, html_part, textFrom, htmlFrom>>
    /\ UNCHANGED <<wrapVars, attVars, layVars, batchVars>>

(***************************************************************************)
(* _sanitize_filename (convert.py 93-97).                                  *)
(***************************************************************************)
Letters ==
    {"a", "b", "c", "d", "e", "f", "g", "h", "i", "j", "k", "l", "m",
     "n", "o", "p", "q", "r", "s", "t", "u", "v", "w", "x", "y", "z",
     "A", "B", "C", "D", "E", "F", "G", "H", "I", "J", "K", "L", "M",
     "N", "O", "P", "Q", "R", "S", "T", "U", "V", "W", "X", "Y", "Z"}

Digits == {"0", "1", "2", "3", "4", "5", "6", "7", "8", "9"}

\* the class [A-Za-z0-9._-] of line 97
AllowedChars == Letters \cup Digits \cup {".", "_", "-"}

\* str.replace(old, "_") for a one-character old
ReplaceChar(s, old) == [i \in 1..Len(s) |-> IF s[i] = old THEN "_" ELSE s[i]]

\* re.sub(r"[^A-Za-z0-9._-]+", "_", s): each maximal run of characters
\* outside the class becomes one underscore
RECURSIVE ReSub(_, _)
ReSub(s, inRun) ==
    IF s = <<>> THEN <<>>
    ELSE IF Head(s) \in AllowedChars THEN <<Head(s)>> \o ReSub(Tail(s), FALSE)
    ELSE IF inRun THEN ReSub(Tail(s), TRUE)
    ELSE <<"_">> \o ReSub(Tail(s), TRUE)

_sanitize_filename(name, default) ==
    LET stripped == ReplaceChar(ReplaceChar(Strip(name), "\\"), "/")
    IN IF stripped = <<>> THEN default ELSE ReSub(stripped, FALSE)

(***************************************************************************)
(* _save_attachments (convert.py 100-131).  A destination directory is the *)
(* set of its entries [name, data]; writing a name replaces its entry.     *)
(***************************************************************************)
\* str(n) for n >= 0
DigitOf(d) ==
    CASE d = 0 -> "0" [] d = 1 -> "1" [] d = 2 -> "2" [] d = 3 -> "3" [] d = 4 -> "4"
      [] d = 5 -> "5" [] d = 6 -> "6" [] d = 7 -> "7" [] d = 8 -> "8" [] d = 9 -> "9"

RECURSIVE Str(_)
Str(n) == IF n < 10 THEN <<DigitOf(n)>> ELSE Str(n \div 10) \o <<DigitOf(n % 10)>>

\* mimetypes.guess_extension(content_type) or ""
GuessExtension(content_type) ==
    CASE content_type = "text/plain" -> <<".", "t", "x", "t">>
      [] content_type = "application/pdf" -> <<".", "p", "d", "f">>
      [] OTHER -> <<>>

\* f"attachment-{index}{ext}"
DefaultName(index, ext) ==
    <<"a", "t", "t", "a", "c", "h", "m", "e", "n", "t", "-">> \o Str(index) \o ext

\* part.get_filename(): the declared name, whitespace-trimmed by the parser
get_filename(part) == IF part.filename = None THEN None ELSE Strip(part.filename)

\* "x or ''" and "x or b''"
OrEmpty(v) == IF v = None THEN <<>> ELSE v

\* Path.write_bytes on a path whose last component is "." or ".." opens a
\* directory and raises IsADirectoryError
IsDirectoryName(name) == name \in {<<".">>, <<".", ".">>}

DirWrite(dir, name, data) ==
    {e \in dir : e.name # name} \cup {[name |-> name, data |-> data]}

\* the data stored under name, None when there is no such entry
DirRead(dir, name) ==
    IF \E e \in dir : e.name = name
    THEN (CHOOSE e \in dir : e.name = name).data
    ELSE None

\* a mutation of NextIndex: the index advances for every leaf part walked
NextIndexPerPart(index, emitted) == index + 1

\* lines 102, 129: index advances once per emitted attachment
NextIndex(index, emitted) == IF emitted THEN index + 1 ELSE index

\* the state _save_attachments starts from (lines 101-102); kind is what the
\* path attachments_dir is on disk: "absent", "dir" or "file"
SaveState(kind, dir) ==
    [attachments |-> <<>>, index |-> 1, kind |-> kind, dir |-> dir,
     exc |-> "none", emittedFrom |-> <<>>, written |-> <<>>]

\* line 103: attachments_dir.mkdir(parents=True, exist_ok=True) raises
\* FileExistsError when the path exists and is not a directory
SaveMkdir(st) ==
    IF st.kind = "file" THEN [st EXCEPT !.exc = "FileExistsError"]
    ELSE [st EXCEPT !.kind = "dir"]

\* lines 105-129: one iteration of the loop, for the part at walk position pos
SavePart(st, part, pos) ==
    IF part.multipart THEN st
    ELSE IF part.disp \notin {"attachment", "inline"}
    THEN [st EXCEPT !.index = NextIndex(@, FALSE)]
    ELSE LET filename == OrEmpty(get_filename(part))
             ext == GuessExtension(part.ctype)
             safe_name == _sanitize_filename(filename, DefaultName(st.index, ext))
             payload == OrEmpty(part.payload)
         IN IF IsDirectoryName(safe_name)
            THEN [st EXCEPT !.exc = "IsADirectoryError",
                            !.written = Append(@, safe_name)]
            ELSE [st EXCEPT
                    !.dir = DirWrite(@, safe_name, payload),
                    !.written = Append(@, safe_name),
                    !.attachments = Append(@, [filename |-> safe_name,
                                               content_type |-> part.ctype,
                                               size |-> Len(payload),
                                               saved_path |-> safe_name]),
                    !.emittedFrom = Append(@, pos),
                    !.index = NextIndex(@, TRUE)]

\* the whole of _save_attachments from walk position pos on
RECURSIVE SaveFrom(_, _, _)
SaveFrom(st, msg, pos) ==
    IF st.exc # "none" \/ pos > Len(msg) THEN st
    ELSE SaveFrom(SavePart(st, msg[pos], pos), msg, pos + 1)

_save_attachments(msg, kind, dir) ==
    LET made == SaveMkdir(SaveState(kind, dir))
    IN SaveFrom(made, msg, 1)

Hello == <<"h", "e", "l", "l", "o">>
NoteTxt == <<"n", "o", "t", "e", ".", "t", "x", "t">>

AttCtypes == {"text/plain", "application/octet-stream"}

\* the parts of the bounded walks: a container that declares a disposition,
\* and leaves with every disposition
ContainerPart ==
    [multipart |-> TRUE, disp |-> "attachment", filename |-> None,
     ctype |-> Multipart, payload |-> None]

LeafParts(names) ==
    [multipart : {FALSE}, disp : Dispositions, filename : names,
     ctype : AttCtypes, payload : {None, Hello}]

SmallNames == {None, <<" ">>, NoteTxt}

NameAlphabet == {"a", ".", "/", "\\", " ", "*"}

AttMessages ==
    (UNION {[1..k -> LeafParts(SmallNames) \cup {ContainerPart}] : k \in 0..MaxParts})
    \cup {<<p>> : p \in {q \in LeafParts(StringsUpTo(NameAlphabet, MaxNameLen)) :
                           q.disp = "attachment" /\ q.ctype = "text/plain"
                           /\ q.payload = Hello}}

AttIdle == aMsg = <<>> /\ aPos = 0 /\ aState = SaveState("absent", {}) /\ aPc = "idle"

InitAttach ==
    /\ aMsg \in AttMessages
    /\ aPos = 1
    /\ aState \in {SaveState(k, {}) : k \in {"absent", "file"}}
    /\ aPc = "start"

\* line 103
SaveStart ==
    /\ aPc = "start"
    /\ aState' = SaveMkdir(aState)
    /\ aPc' = IF aState'.exc # "none" THEN "raised" ELSE "walk"
    /\ UNCHANGED <<aMsg, aPos>>
    /\ UNCHANGED <<wrapVars, bodyVars, layVars, batchVars>>

\* lines 105-129, one part
SaveStep ==
    /\ aPc = "walk"
    /\ aPos <= Len(aMsg)
    /\ aState' = SavePart(aState, aMsg[aPos], aPos)
    /\ aPc' = IF aState'.exc # "none" THEN "raised" ELSE "walk"
    /\ aPos' = aPos + 1
    /\ UNCHANGED aMsg
    /\ UNCHANGED <<wrapVars, bodyVars, layVars, batchVars>>

\* line 131
SaveReturn ==
    /\ aPc = "walk"
    /\ aPos > Len(aMsg)
    /\ aPc' = "returned"
    /\ UNCHANGED <<aMsg, aPos, aState>>
    /\ UNCHANGED <<wrapVars, bodyVars, layVars, batchVars>>

(***************************************************************************)
(* The direct-layout path of convert_eml_to_pdf (convert.py 240-280) and   *)
(* _draw_paragraphs (203-214).  Lengths are in points; all the values the  *)
(* code computes are whole numbers of points.                              *)
(***************************************************************************)
inch == 72
line_height == 14
max_chars == 90

\* lines 209, 274: 1 * inch
Bottom == 1 * inch

\* lines 211, 242, 276: 10.5 * inch
top == (21 * inch) \div 2

\* line 255: line_height * 1.5
HeaderGap == (line_height * 3) \div 2

\* lines 209-211 and 274-276: the page-break check before a line is drawn;
\* the cursor and the number of pages shown so far
PageBreak(cursor, shown) ==
    IF cursor <= Bottom THEN <<top, shown + 1>> ELSE <<cursor, shown>>

\* the paragraphs a body is made of: empty, whitespace only, one word, one
\* word longer than a line, and 46 words that wrap into two lines
LongWord == Repeat("a", max_chars + 10)
TwoLines == JoinWords([i \in 1..46 |-> <<"a">>])
Paragraphs == {<<>>, <<" ">>, <<"a">>, LongWord, TwoLines}

\* line 272: f"- {att.filename} ({att.content_type}, {att.size} bytes)" for an
\* attachment whose sanitized filename has n characters
AttachmentLine(n) ==
    JoinWords(<<<<"-">>, Repeat("f", n), <<"(", "t", "/", "p", ",">>, <<"5">>,
                <<"b", "y", "t", "e", "s", ")">>>>)
AttachmentLines == {AttachmentLine(8), AttachmentLine(max_chars)}

\* line 208 and line 273: _wrap_text(para, max_width) of every line of text
\* the layout is given
WrappedParagraph == [para \in Paragraphs |-> _wrap_text(para, max_chars)]
WrappedListing == [line \in AttachmentLines |-> _wrap_text(line, max_chars)]

NoDraw == [at |-> top, kind |-> "none"]

LayoutIdle ==
    /\ y = 0 /\ pages = 0 /\ pending = <<>> /\ lastDraw = NoDraw
    /\ nParas = 0 /\ lastBlank = FALSE /\ attsLeft = 0 /\ lPc = "idle"

\* line 240: a fresh canvas; attsLeft is len(attachments)
InitLayout ==
    /\ y = top
    /\ pages = 0
    /\ pending = <<>>
    /\ lastDraw = NoDraw
    /\ nParas = 0
    /\ lastBlank = FALSE
    /\ attsLeft \in 0..MaxAtts
    /\ lPc = "start"

\* lines 245-256: Subject, From, To, Date, then the gap before the body
DrawHeaders ==
    /\ lPc = "start"
    /\ lastDraw' = [at |-> top - 3 * line_height, kind |-> "header"]
    /\ y' = top - 3 * line_height - HeaderGap
    /\ lPc' = "body"
    /\ UNCHANGED <<pages, pending, nParas, lastBlank, attsLeft>>
    /\ UNCHANGED <<wrapVars, bodyVars, attVars, batchVars>>

\* lines 204-207 for the only paragraph of an empty body: "".split("\n")
\* is [""]
EmptyBody ==
    /\ lPc = "body"
    /\ nParas = 0
    /\ pending = <<>>
    /\ y' = y - line_height
    /\ nParas' = 1
    /\ lPc' = "body_done"
    /\ UNCHANGED <<pages, pending, lastDraw, lastBlank, attsLeft>>
    /\ UNCHANGED <<wrapVars, bodyVars, attVars, batchVars>>

\* lines 204-208: the next paragraph of the body.  The body is stripped
\* (lines 67-74, 50), so its first and last paragraphs are not blank.
ParaBegin ==
    /\ lPc = "body"
    /\ pending = <<>>
    /\ nParas < MaxParas
    /\ \E para \in Paragraphs :
         /\ nParas = 0 => Strip(para) # <<>>
         /\ IF Strip(para) = <<>>
            THEN /\ y' = y - line_height
                 /\ lastBlank' = TRUE
                 /\ UNCHANGED pending
            ELSE /\ pending' = WrappedParagraph[para]
                 /\ lastBlank' = FALSE
                 /\ UNCHANGED y
    /\ nParas' = nParas + 1
    /\ UNCHANGED <<pages, lastDraw, attsLeft, lPc>>
    /\ UNCHANGED <<wrapVars, bodyVars, attVars, batchVars>>

\* lines 208-213: one wrapped line of the current paragraph
DrawLine ==
    /\ lPc = "body"
    /\ pending # <<>>
    /\ LET pb == PageBreak(y, pages)
       IN /\ lastDraw' = [at |-> pb[1], kind |-> "body"]
          /\ y' = pb[1] - line_height
          /\ pages' = pb[2]
    /\ pending' = Tail(pending)
    /\ UNCHANGED <<nParas, lastBlank, attsLeft, lPc>>
    /\ UNCHANGED <<wrapVars, bodyVars, attVars, batchVars>>

\* line 214: _draw_paragraphs returns
BodyEnd ==
    /\ lPc = "body"
    /\ pending = <<>>
    /\ nParas > 0
    /\ ~lastBlank
    /\ lPc' = "body_done"
    /\ UNCHANGED <<y, pages, pending, lastDraw, nParas, lastBlank, attsLeft>>
    /\ UNCHANGED <<wrapVars, bodyVars, attVars, batchVars>>

\* lines 265-270: the "Attachments:" header line
AttHeader ==
    /\ lPc = "body_done"
    /\ attsLeft > 0
    /\ lastDraw' = [at |-> y - line_height, kind |-> "att_header"]
    /\ y' = y - line_height - line_height
    /\ lPc' = "atts"
    /\ UNCHANGED <<pages, pending, nParas, lastBlank, attsLeft>>
    /\ UNCHANGED <<wrapVars, bodyVars, attVars, batchVars>>

\* lines 271-273: the next attachment's listing line, wrapped
AttBegin ==
    /\ lPc = "atts"
    /\ pending = <<>>
    /\ attsLeft > 0
    /\ \E line \in AttachmentLines : pending' = WrappedListing[line]
    /\ attsLeft' = attsLeft - 1
    /\ UNCHANGED <<y, pages, lastDraw, nParas, lastBlank, lPc>>
    /\ UNCHANGED <<wrapVars, bodyVars, attVars, batchVars>>

\* lines 273-278: one wrapped line of the listing
AttDraw ==
    /\ lPc = "atts"
    /\ pending # <<>>
    /\ LET pb == PageBreak(y, pages)
       IN /\ lastDraw' = [at |-> pb[1], kind |-> "att"]
          /\ y' = pb[1] - line_height
          /\ pages' = pb[2]
    /\ pending' = Tail(pending)
    /\ UNCHANGED <<nParas, lastBlank, attsLeft, lPc>>
    /\ UNCHANGED <<wrapVars, bodyVars, attVars, batchVars>>

\* line 280: c.save()
Save ==
    /\ \/ lPc = "body_done" /\ attsLeft = 0
       \/ lPc = "atts" /\ attsLeft = 0 /\ pending = <<>>
    /\ lPc' = "saved"
    /\ UNCHANGED <<y, pages, pending, lastDraw, nParas, lastBlank, attsLeft>>
    /\ UNCHANGED <<wrapVars, bodyVars, attVars, batchVars>>

(***************************************************************************)
(* The file system of a batch run.  An entry of the input tree is a path   *)
(* <dir>/m<stem><suffix>; the output directory holds <stem>.pdf and        *)
(* attachments/<stem>/ for every stem.                                     *)
(***************************************************************************)
Stems == 1..MaxStems

NoEntry == [dir |-> "", stem |-> 0, suffix |-> "", kind |-> "none"]
TopDir == [dir |-> "top", stem |-> 0, suffix |-> "", kind |-> "dir"]

\* the message files that may be in the input directory and below it
EmlEntries == [dir : {"top", "sub"}, stem : Stems, suffix : {".eml"}, kind : {"file"}]

\* always in the input directory: a file that is no message, and a
\* directory whose name ends in .eml
OtherEntries ==
    {[dir |-> "top", stem |-> 0, suffix |-> ".txt", kind |-> "file"],
     [dir |-> "top", stem |-> 0, suffix |-> ".eml", kind |-> "dir"]}

\* the single files batch_convert may be given instead of a directory
SingleFiles ==
    {[dir |-> "top", stem |-> 1, suffix |-> ".eml", kind |-> "file"],
     [dir |-> "top", stem |-> 1, suffix |-> ".EML", kind |-> "file"],
     [dir |-> "top", stem |-> 0, suffix |-> ".txt", kind |-> "file"]}

\* str.lower() on the suffixes of the model
Lower(suffix) == IF suffix = ".EML" THEN ".eml" ELSE suffix

\* Path.glob("*.eml") and Path.glob("**/*.eml") from the input directory
Glob(entries, recurse) ==
    {p \in entries : p.suffix = ".eml" /\ (recurse \/ p.dir = "top")}

\* lines 283-292
_iter_eml_files(path, entries, recurse) ==
    IF path.kind = "file"
    THEN (IF Lower(path.suffix) = ".eml" THEN {path} ELSE {})
    ELSE {p \in Glob(entries, recurse) : p.kind = "file"}

\* glob yields the matches of a directory before those of its subdirectories,
\* in no particular order within a directory
MayYieldNext(p, rest) == p.dir = "sub" => \A q \in rest : q.dir = "sub"

AbsentDoc == [by |-> "nothing", src |-> NoEntry]
OldDoc == [by |-> "earlier", src |-> NoEntry]
\* the document rendered from input p
Doc(p) == [by |-> "convert", src |-> p]

\* the message _read_eml parses from an input file
TextPart ==
    [multipart |-> FALSE, disp |-> NoDisp, filename |-> None,
     ctype |-> "text/plain", payload |-> <<"h", "i">>]
RootPart ==
    [multipart |-> TRUE, disp |-> NoDisp, filename |-> None,
     ctype |-> Multipart, payload |-> None]
NotePart ==
    [multipart |-> FALSE, disp |-> "attachment", filename |-> NoteTxt,
     ctype |-> "text/plain", payload |-> Hello]
DotDotPart ==
    [multipart |-> FALSE, disp |-> "attachment", filename |-> <<" ", ".", ".">>,
     ctype |-> "text/plain", payload |-> Hello]

MessageOf(p) ==
    IF p.stem = 1 THEN <<RootPart, TextPart, NotePart>>
    ELSE IF p.dir = "sub" /\ p.stem = 2 THEN <<RootPart, TextPart, DotDotPart>>
    ELSE <<TextPart>>

\* a mutation of OutputExists: the overwrite flag is read inverted
OutputExistsInverted(exists, allow) == exists /\ allow

\* line 224: pdf_path.exists() and not overwrite
OutputExists(exists, allow) == exists /\ ~allow

\* Path.exists() of <output_dir>/<stem>.pdf
PdfExists(f, stem) == f.outKind = "dir" /\ f.pdfs[stem] # AbsentDoc

Outcome(f, e, c) == [fs |-> f, exc |-> e, cause |-> c]

\* lines 217-280.  fault is what the environment does to this call: "none",
\* "read" (the input cannot be read or decoded) or "render" (the renderer
\* raises before the output file is opened).
convert_eml_to_pdf(f, eml, allow, extract, fault) ==
    LET stem == eml.stem
        \* lines 232-233; the attachments directory lies below the output
        \* directory, which must be a directory for mkdir to succeed
        saved == _save_attachments(MessageOf(eml), f.atts[stem].kind, f.atts[stem].dir)
        withAtts == IF extract
                    THEN [f EXCEPT !.atts[stem] = [kind |-> saved.kind, dir |-> saved.dir],
                                   !.outKind = "dir"]
                    ELSE f
    IN IF OutputExists(PdfExists(f, stem), allow)
       THEN Outcome(f, "FileExistsError", "output_exists")
       ELSE IF fault = "read"
       THEN Outcome(f, "Exception", "read")
       ELSE IF extract /\ f.outKind = "file"
       THEN Outcome(f, "NotADirectoryError", "attachments_mkdir")
       ELSE IF extract /\ saved.exc = "FileExistsError"
       THEN Outcome(f, saved.exc, "attachments_mkdir")
       ELSE IF extract /\ saved.exc # "none"
       THEN Outcome(withAtts, saved.exc, "attachment_write")
       \* line 235: pdf_path.parent.mkdir(parents=True, exist_ok=True)
       ELSE IF withAtts.outKind = "file"
       THEN Outcome(withAtts, "FileExistsError", "output_mkdir")
       ELSE IF fault = "render"
       THEN Outcome([withAtts EXCEPT !.outKind = "dir"], "Exception", "render")
       ELSE Outcome([withAtts EXCEPT !.outKind = "dir", !.pdfs[stem] = Doc(eml)],
                    "none", "none")

(***************************************************************************)
(* batch_convert (convert.py 295-315) and main (cli.py 25-44).             *)
(***************************************************************************)
\* a mutation of Propagates: only the output-exists failure ends the batch,
\* any other failure is swallowed and the loop goes on
PropagatesOnlyExists(e) == e = "FileExistsError"

\* lines 307-314: the call is not guarded, so whatever it raises leaves
\* batch_convert
Propagates(e) == e # "none"

\* cli.py 36-44: the exit code for what batch_convert raised
ExitCode(e) ==
    IF e = "none" THEN 0
    ELSE IF e = "FileExistsError" THEN 2
    ELSE 1

NoCall(before) ==
    [eml |-> NoEntry, existed |-> FALSE, exc |-> "none", pdfsBefore |-> before]

EmptyAtts == [kind |-> "absent", dir |-> {}]

\* the output directory before the run: absent or a regular file; or a
\* directory that holds the documents of an earlier run for some stems and
\* where attachments/m1 may be a regular file
FileSystems ==
    {[pdfs |-> [s \in 0..MaxStems |-> AbsentDoc],
      atts |-> [s \in 0..MaxStems |-> EmptyAtts],
      outKind |-> k] : k \in {"absent", "file"}}
    \cup
    {[pdfs |-> [s \in 0..MaxStems |-> IF s \in old THEN OldDoc ELSE AbsentDoc],
      atts |-> [s \in 0..MaxStems |->
                  IF s \in blocked THEN [kind |-> "file", dir |-> {}] ELSE EmptyAtts],
      outKind |-> "dir"] : old \in SUBSET Stems, blocked \in {{}, {1}}}

BatchIdle ==
    /\ tree = {} /\ input_path = NoEntry /\ recursive = FALSE /\ overwrite = FALSE
    /\ extract_attachments = FALSE
    /\ fs = [pdfs |-> <<>>, atts |-> <<>>, outKind |-> "absent"]
    /\ eligible = {} /\ todo = {} /\ count = 0 /\ phase = "idle" /\ exc = "none"
    /\ cause = "none" /\ lastCall = NoCall(<<>>) /\ started = {} /\ converted = {}
    /\ exitCode = -1

InitBatch ==
    /\ input_path \in {TopDir} \cup SingleFiles
    /\ tree \in IF input_path = TopDir
                THEN {OtherEntries \cup present : present \in SUBSET EmlEntries}
                ELSE {{input_path}}
    /\ recursive \in BOOLEAN
    /\ overwrite \in BOOLEAN
    /\ extract_attachments \in BOOLEAN
    /\ fs \in FileSystems
    /\ eligible = {}
    /\ todo = {}
    /\ count = 0
    /\ phase = "start"
    /\ exc = "none"
    /\ cause = "none"
    /\ lastCall = NoCall(fs.pdfs)
    /\ started = {}
    /\ converted = {}
    /\ exitCode = -1

\* lines 303-304: count = 0 and the generator over the eligible inputs
BatchStart ==
    /\ phase = "start"
    /\ eligible' = _iter_eml_files(input_path, tree, recursive)
    /\ todo' = eligible'
    /\ count' = 0
    /\ phase' = "running"
    /\ UNCHANGED <<tree, input_path, recursive, overwrite, extract_attachments, fs,
                   exc, cause, lastCall, started, converted, exitCode>>
    /\ UNCHANGED <<wrapVars, bodyVars, attVars, layVars>>

\* lines 304-314: one iteration of the loop, the conversion included
ConvertNext ==
    /\ phase = "running"
    /\ \E eml_path \in todo, fault \in {"none", "read", "render"} :
         /\ MayYieldNext(eml_path, todo)
         /\ LET r == convert_eml_to_pdf(fs, eml_path, overwrite,
                                        extract_attachments, fault)
            IN /\ fs' = r.fs
               /\ lastCall' = [eml |-> eml_path,
                               existed |-> PdfExists(fs, eml_path.stem),
                               exc |-> r.exc,
                               pdfsBefore |-> fs.pdfs]
               /\ started' = started \cup {eml_path}
               /\ todo' = todo \ {eml_path}
               /\ IF Propagates(r.exc)
                  THEN /\ exc' = r.exc
                       /\ cause' = r.cause
                       /\ phase' = "raised"
                       /\ UNCHANGED <<count, converted>>
                  ELSE /\ count' = count + 1
                       /\ converted' = IF r.exc = "none"
                                       THEN converted \cup {eml_path}
                                       ELSE converted
                       /\ UNCHANGED <<exc, cause, phase>>
    /\ UNCHANGED <<tree, input_path, recursive, overwrite, extract_attachments,
                   eligible, exitCode>>
    /\ UNCHANGED <<wrapVars, bodyVars, attVars, layVars>>

\* line 315: return count
BatchReturn ==
    /\ phase = "running"
    /\ todo = {}
    /\ phase' = "returned"
    /\ UNCHANGED <<tree, input_path, recursive, overwrite, extract_attachments, fs,
                   eligible, todo, count, exc, cause, lastCall, started, converted,
                   exitCode>>
    /\ UNCHANGED <<wrapVars, bodyVars, attVars, layVars>>

\* cli.py 43-44: the count is printed, exit code 0
MainSuccess ==
    /\ phase = "returned"
    /\ exitCode' = ExitCode("none")
    /\ phase' = "exited"
    /\ UNCHANGED <<tree, input_path, recursive, overwrite, extract_attachments, fs,
                   eligible, todo, count, exc, cause, lastCall, started, converted>>
    /\ UNCHANGED <<wrapVars, bodyVars, attVars, layVars>>

\* cli.py 36-41: the failure is reported, exit code 2 or 1
MainFailure ==
    /\ phase = "raised"
    /\ exitCode' = ExitCode(exc)
    /\ phase' = "exited"
    /\ UNCHANGED <<tree, input_path, recursive, overwrite, extract_attachments, fs,
                   eligible, todo, count, exc, cause, lastCall, started, converted>>
    /\ UNCHANGED <<wrapVars, bodyVars, attVars, layVars>>

(***************************************************************************)
(* The specifications.                                                     *)
(***************************************************************************)
Init == WrapIdle /\ BodyIdle /\ AttIdle /\ LayoutIdle /\ InitBatch

Next == BatchStart \/ ConvertNext \/ BatchReturn \/ MainSuccess \/ MainFailure

Spec == Init /\ [][Next]_vars

InitW == InitWrap /\ BodyIdle /\ AttIdle /\ LayoutIdle /\ BatchIdle

NextWrap == Wrap

SpecWrap == InitW /\ [][NextWrap]_vars

InitB == WrapIdle /\ InitBody /\ AttIdle /\ LayoutIdle /\ BatchIdle

NextBody == BodyEnter \/ BodyWalk \/ BodyReturn \/ BodySingle

SpecBody == InitB /\ [][NextBody]_vars

InitA == WrapIdle /\ BodyIdle /\ InitAttach /\ LayoutIdle /\ BatchIdle

NextAttach == SaveStart \/ SaveStep \/ SaveReturn

SpecAttach == InitA /\ [][NextAttach]_vars

InitL == WrapIdle /\ BodyIdle /\ AttIdle /\ InitLayout /\ BatchIdle

NextLayout ==
    \/ DrawHeaders \/ EmptyBody \/ ParaBegin \/ DrawLine \/ BodyEnd
    \/ AttHeader \/ AttBegin \/ AttDraw \/ Save

SpecLayout == InitL /\ [][NextLayout]_vars

(***************************************************************************)
(* The claims.                                                             *)
(***************************************************************************)
\* the words of a sequence of lines, in order
RECURSIVE WordsOf(_)
WordsOf(lines) == IF lines = <<>> THEN <<>> ELSE Split(Head(lines)) \o WordsOf(Tail(lines))

\* C5: every line _wrap_text produces is at most width characters long,
\* except a line that is one single word longer than width; the words of the
\* lines are the words of the text, whole and in order; a text with a word
\* yields at least one line and a text without words yields none.
C5_WrapBound ==
    wPc = "done" =>
        LET words == Split(wText)
        IN /\ \A i \in 1..Len(wLines) :
                \/ Len(wLines[i]) <= wWidth
                \/ Len(Split(wLines[i])) = 1 /\ Split(wLines[i])[1] = wLines[i]
           /\ WordsOf(wLines) = words
           /\ words # <<>> => Len(wLines) >= 1
           /\ words = <<>> => wLines = <<>>

\* a wrap that yields a line of several words and a line that is one word
\* longer than the width
C5_Witness ==
    /\ wPc = "done"
    /\ \E i, j \in 1..Len(wLines) :
         /\ Len(wLines[i]) > wWidth
         /\ Len(Split(wLines[j])) >= 2

\* the first position below bound of a part of the given type whose
\* disposition is not attachment, 0 when there is none
FirstBodyPart(msg, bound, ctype) ==
    LET c == {i \in 1..bound : msg[i].ctype = ctype /\ msg[i].disp # "attachment"}
    IN IF c = {} THEN 0 ELSE CHOOSE i \in c : \A j \in c : i <= j

CandidateAt(msg, pos) == IF pos = 0 THEN None ELSE msg[pos].content

\* C9: at every point of the walk over a multipart message the plain
\* candidate is the content of the first text/plain part walked so far whose
\* disposition is not attachment, and the html candidate that of the first
\* such text/html part: a later part never replaces an earlier one, also
\* when the earlier content is empty, and an attachment part is never taken.
C9_FirstWins ==
    bPc \in {"walk", "done"} /\ is_multipart(bMsg) =>
        LET walked == IF bPos - 1 < Len(bMsg) THEN bPos - 1 ELSE Len(bMsg)
        IN /\ textFrom = FirstBodyPart(bMsg, walked, "text/plain")
           /\ htmlFrom = FirstBodyPart(bMsg, walked, "text/html")
           /\ text_part = CandidateAt(bMsg, textFrom)
           /\ html_part = CandidateAt(bMsg, htmlFrom)
           /\ textFrom # 0 => bMsg[textFrom].disp # "attachment"
           /\ htmlFrom # 0 => bMsg[htmlFrom].disp # "attachment"

\* a finished walk over a text/plain attachment, then an empty text/plain
\* body part, then a text/plain part with content: the empty one is kept
C9_Witness ==
    /\ bPc = "done"
    /\ Len(bMsg) = 4
    /\ \A i \in 2..4 : bMsg[i].ctype = "text/plain"
    /\ bMsg[2].disp = "attachment" /\ bMsg[2].content # <<>>
    /\ bMsg[3].disp # "attachment" /\ bMsg[3].content = <<>>
    /\ bMsg[4].disp # "attachment" /\ bMsg[4].content # <<>>
    /\ textFrom = 3
    /\ text_part = <<>>

\* the walk positions of the leaf parts whose disposition is attachment or
\* inline, in walk order
Emitted(msg) ==
    LET c == {i \in 1..Len(msg) :
                ~msg[i].multipart /\ msg[i].disp \in {"attachment", "inline"}}
        nth(k) == CHOOSE i \in c : Cardinality({j \in c : j <= i}) = k
    IN [k \in 1..Cardinality(c) |-> nth(k)]

\* C10: when _save_attachments returns, the list holds one Attachment for
\* exactly the leaf parts with disposition attachment or inline, in walk
\* order, and a part without a usable declared filename is named
\* attachment-<n><ext> with n its 1-based position in the list.
C10_EmittedInOrder ==
    aPc = "returned" =>
        LET e == Emitted(aMsg)
        IN /\ aState.emittedFrom = e
           /\ Len(aState.attachments) = Len(e)
           /\ \A k \in 1..Len(e) :
                LET part == aMsg[e[k]]
                    att == aState.attachments[k]
                IN /\ att.content_type = part.ctype
                   /\ att.size = Len(OrEmpty(part.payload))
                   /\ Strip(OrEmpty(part.filename)) = <<>> =>
                        att.filename = DefaultName(k, GuessExtension(part.ctype))

\* a walk that skipped a leaf without disposition and then emitted a part
\* without a filename, which is attachment number 1
C10_Witness ==
    /\ aPc = "returned"
    /\ Len(aMsg) = 2
    /\ ~aMsg[1].multipart /\ aMsg[1].disp = NoDisp
    /\ aMsg[2].filename = None /\ aMsg[2].ctype = "text/plain"
    /\ aState.emittedFrom = <<2>>
    /\ aState.attachments[1].filename = DefaultName(1, <<".", "t", "x", "t">>)

\* C6: the name _save_attachments writes under the attachments directory,
\* for a declared filename that holds a character outside [A-Za-z0-9._-], is
\* a single path component and is neither empty, "." nor "..".
C6_NameStaysInside ==
    LET e == Emitted(aMsg)
    IN \A k \in 1..Len(aState.written) :
         LET declared == aMsg[e[k]].filename
             safe_name == aState.written[k]
         IN (declared # None /\ \E i \in 1..Len(declared) : declared[i] \notin AllowedChars)
            => /\ safe_name \notin {<<>>, <<".">>, <<".", ".">>}
               /\ \A i \in 1..Len(safe_name) : safe_name[i] \notin {"/", "\\"}

\* C7: when _save_attachments returns, the file at every returned
\* Attachment's saved_path holds exactly the decoded payload of its part, and
\* as many bytes as the Attachment's size.
C7_FileHoldsPayload ==
    aPc = "returned" =>
        \A k \in 1..Len(aState.attachments) :
            LET att == aState.attachments[k]
                payload == OrEmpty(aMsg[aState.emittedFrom[k]].payload)
                data == DirRead(aState.dir, att.saved_path)
            IN data = payload /\ Len(data) = att.size

\* C4: no body line, "Attachments:" header line or attachment listing line
\* is drawn with its baseline at or below the bottom threshold.
C4_NoLineBelowBottom ==
    lastDraw.kind \in {"body", "att_header", "att"} => lastDraw.at > Bottom

\* C1: a call of convert_eml_to_pdf whose output path exists fails with
\* FileExistsError and leaves the output documents as they were when
\* overwrite is disabled, and, when overwrite is enabled and the call
\* returns, leaves the newly rendered document at the path in place of the
\* old one.
C1_OverwriteGuard ==
    lastCall.existed =>
        LET stem == lastCall.eml.stem
        IN /\ ~overwrite =>
                /\ lastCall.exc = "FileExistsError"
                /\ fs.pdfs = lastCall.pdfsBefore
           /\ overwrite /\ lastCall.exc = "none" =>
                /\ fs.pdfs[stem] = Doc(lastCall.eml)
                /\ fs.pdfs[stem] # lastCall.pdfsBefore[stem]

\* a call refused because the document of an earlier run is at its path
C1_Witness ==
    /\ lastCall.existed
    /\ ~overwrite
    /\ lastCall.exc = "FileExistsError"
    /\ fs.pdfs[lastCall.eml.stem] = OldDoc

\* C2: once a conversion has failed, batch_convert has raised that failure,
\* no input that was still to come has been or is converted, and the output
\* documents are those on disk when the failing conversion began.
C2_FailFast ==
    lastCall.exc # "none" =>
        /\ phase \in {"raised", "exited"}
        /\ exc = lastCall.exc
        /\ phase = "exited" => exitCode # 0
        /\ fs.pdfs = lastCall.pdfsBefore
        /\ started = converted \cup {lastCall.eml}
        /\ count = Cardinality(converted)
        /\ \A p \in todo : p \notin started /\ fs.pdfs[p.stem] # Doc(p)
        /\ \A p \in converted : fs.pdfs[p.stem].by = "convert"

\* a batch that failed after at least one conversion and with inputs left
C2_Witness ==
    /\ phase = "raised"
    /\ converted # {}
    /\ todo # {}
    /\ lastCall.exc = "Exception"

\* C3: when batch_convert returns, the count is the number of eligible
\* inputs, every eligible input has its document <stem>.pdf in the output
\* directory, and the number of documents produced is the count.
C3_CountIsDocuments ==
    phase = "returned" =>
        /\ count = Cardinality(eligible)
        /\ \A p \in eligible : fs.pdfs[p.stem].by = "convert"
        /\ Cardinality({s \in 0..MaxStems : fs.pdfs[s].by = "convert"}) = count

\* C8: main exits with 0 exactly when the batch succeeded, with 2 exactly
\* when it failed because an output document existed and overwrite was
\* disabled, and with 1 for every other failure.
C8_ExitCodes ==
    phase = "exited" =>
        /\ exitCode = 0 <=> cause = "none"
        /\ exitCode = 2 <=> cause = "output_exists"
        /\ exitCode = 1 <=> cause \notin {"none", "output_exists"}
====
